---- MODULE Spec2Model ----
(***************************************************************************)
(* Model of src/app.py: the Streamlit supply-chain dashboard script.       *)
(*                                                                         *)
(* One run of the script (a "render") is modelled as the sequence of its   *)
(* top-level calls: the upload test, load_data, sidebar_filters, the       *)
(* empty-result test, kpi_section and charts_section.  Data frames live in *)
(* a heap of named objects so that copying and aliasing are observable.    *)
(* Money and counts are integers; a mean is kept as an exact fraction.     *)
(* A timestamp is a number of hours; a calendar date is a number of days.  *)
(***************************************************************************)
EXTENDS Integers, Sequences, FiniteSets, TLC

VARIABLES uploaded_file, cache_key, pc, heap, df, filtered_df, criteria, trace, out

vars == <<uploaded_file, cache_key, pc, heap, df, filtered_df, criteria, trace, out>>

-----------------------------------------------------------------------------
(* Bounds of the explored inputs.                                          *)

\* the most rows an uploaded file has
MaxRows == 2

\* the last calendar day that occurs in a file or in the date widget
MaxDay == 2

Days == 1..MaxDay

\* the times of day that occur in a file: midnight and noon

Hours == {0, 12}

-----------------------------------------------------------------------------
(* Values.                                                                 *)

\* "uploaded_file is None": no file in the uploader
NoFile == [cols |-> {}, rows |-> <<>>]

\* a variable that refers to no frame
NoRef == "none"

NaN == "NaN"

DateCols == {"order_date", "ship_date", "delivery_date"}

RequiredCols ==
    {"order_id", "order_date", "ship_date", "delivery_date", "units_sold",
     "unit_price", "shipping_cost", "fulfillment_cost", "delivery_status",
     "region", "warehouse_id", "product_category"}

DerivedCols == {"order_value", "total_cost", "profit", "delivery_days", "is_late"}

Refs == {"src", "filtered", "kpi", "charts"}

NoFrame == [cols |-> {}, datetimes |-> {}, index |-> <<>>, rows |-> <<>>]

\* a number that is "not a number": the mean of no values
NaNNum == [num |-> 0, den |-> 0]

-----------------------------------------------------------------------------
(* Generic sequence helpers.                                               *)

RECURSIVE SumSeq(_)
SumSeq(s) == IF s = <<>> THEN 0 ELSE Head(s) + SumSeq(Tail(s))

Positions(s) == [i \in 1..Len(s) |-> i]

Column(f, c) == [i \in 1..Len(f.rows) |-> f.rows[i][c]]

SetMin(S) == CHOOSE x \in S : \A y \in S : x <= y

SetMax(S) == CHOOSE x \in S : \A y \in S : x >= y

-----------------------------------------------------------------------------
(* The uploaded CSV files.  A file is its header (cols) and its rows; the  *)
(* three date cells are text <<day, hour>>, or <<>> for unparsable text.   *)

Shape(region, wh, cat, od, status, units) ==
    [region |-> region, warehouse_id |-> wh, product_category |-> cat,
     order_date |-> od, delivery_status |-> status, units_sold |-> units]

CsvRow(id, s) ==
    [order_id |-> id,
     order_date |-> s.order_date,
     ship_date |-> s.order_date,
     delivery_date |->
        <<s.order_date[1] + (IF s.delivery_status = "Late" THEN 2 ELSE 1), 12>>,
     units_sold |-> s.units_sold,
     unit_price |-> 10,
     shipping_cost |-> 1,
     fulfillment_cost |-> 1,
     delivery_status |-> s.delivery_status,
     region |-> s.region,
     warehouse_id |-> s.warehouse_id,
     product_category |-> s.product_category]

\* rows that differ in the three categorical filter columns
ShapesDims ==
    {Shape(r, w, c, <<1, 0>>, "On Time", 1) :
        r \in {"US", "EU"}, w \in {"W1", "W2"}, c \in {"Books", "Toys"}}

\* rows that differ in the order timestamp
ShapesDates ==
    {Shape("US", "W1", "Books", <<d, h>>, "On Time", 1) : d \in Days, h \in Hours}

\* rows that differ in warehouse and delivery status
ShapesStatus ==
    {Shape("US", w, "Books", <<1, 0>>, s, 1) :
        w \in {"W1", "W2"}, s \in {"Late", "On Time"}}

\* rows that differ in region (possibly missing) and in units sold
ShapesRegion ==
    {Shape(r, "W1", "Books", <<1, 0>>, "On Time", u) :
        r \in {"US", "EU", NaN}, u \in {1, 2}}

CsvOf(shapes) ==
    [cols |-> RequiredCols,
     rows |-> [i \in 1..Len(shapes) |-> CsvRow(100 + i, shapes[i])]]

TablesOver(S) == UNION {[1..n -> S] : n \in 1..MaxRows}

WellFormedFiles ==
    {CsvOf(t) : t \in TablesOver(ShapesDims) \cup TablesOver(ShapesDates)
                      \cup TablesOver(ShapesStatus) \cup TablesOver(ShapesRegion)}

\* the file without column c
DropColumn(file, c) ==
    [cols |-> file.cols \ {c},
     rows |-> [i \in 1..Len(file.rows) |->
                 [k \in file.cols \ {c} |-> file.rows[i][k]]]]

\* the file with an unparsable date in column c of its first row
GarbleDate(file, c) ==
    [file EXCEPT !.rows[1] = [@ EXCEPT ![c] = <<>>]]

MalformedFiles ==
    LET base == {CsvOf(t) : t \in TablesOver(ShapesDates)}
    IN  {DropColumn(f, c) : f \in base, c \in RequiredCols}
        \cup {GarbleDate(f, c) : f \in base, c \in DateCols}

Files == WellFormedFiles \cup MalformedFiles

IsMalformed(file) ==
    \/ RequiredCols \ file.cols # {}
    \/ \E c \in DateCols \cap file.cols :
          \E i \in 1..Len(file.rows) : Len(file.rows[i][c]) # 2

-----------------------------------------------------------------------------
(* load_data: pd.read_csv(file, parse_dates=[...]).                        *)

\* read_csv raises ValueError when a parse_dates column is not in the header
LoadRaises(file) == \E c \in DateCols : c \notin file.cols

\* the timestamp (in hours) that date text <<day, hour>> denotes
ParseDate(text) == text[1] * 24 + text[2]

\* a date column becomes datetime only if every cell parses; else it stays text
ColumnParses(file, c) == \A i \in 1..Len(file.rows) : Len(file.rows[i][c]) = 2

ReadCsv(file) ==
    [cols |-> file.cols,
     datetimes |-> {c \in DateCols \cap file.cols : ColumnParses(file, c)},
     index |-> [i \in 1..Len(file.rows) |-> i - 1],
     rows |-> [i \in 1..Len(file.rows) |->
                [k \in file.cols |->
                   IF k \in DateCols /\ ColumnParses(file, k)
                   THEN ParseDate(file.rows[i][k])
                   ELSE file.rows[i][k]]]]

\* whether column c of frame f holds datetimes (not left as text)
IsDatetime(f, c) == c \in f.datetimes

-----------------------------------------------------------------------------
(* sidebar_filters.                                                        *)

Unique(f, c) == {f.rows[i][c] : i \in 1..Len(f.rows)}

\* sorted(df[c].unique()) raises TypeError when it must compare a missing
\* value (a float) with a string
SortedRaises(f, c) == NaN \in Unique(f, c) /\ Unique(f, c) # {NaN}

\* Timestamp.date(): the calendar day of a timestamp
DateOf(ts) == ts \div 24

\* pd.to_datetime(date): midnight of that day
ToDatetime(d) == d * 24

MinDate(f) == DateOf(SetMin(Unique(f, "order_date")))

MaxDate(f) == DateOf(SetMax(Unique(f, "order_date")))

\* the statements of sidebar_filters up to the date widget raise on f
FiltersRaise(f) ==
    \/ \E c \in {"region", "warehouse_id", "product_category"} :
          c \notin f.cols \/ SortedRaises(f, c)
    \/ ~IsDatetime(f, "order_date")

\* what st.sidebar.date_input may return: a tuple of zero, one or two dates
\* (start <= end), or a bare date
DateInputs ==
    {[kind |-> "tuple", v |-> p] : p \in {q \in Days \X Days : q[1] <= q[2]}}
    \cup {[kind |-> "tuple", v |-> <<a>>] : a \in Days}
    \cup {[kind |-> "tuple", v |-> <<>>]}
    \cup {[kind |-> "date", v |-> <<a>>] : a \in Days}

\* lines 188-197: the widget value normalised to <<start_date, end_date>>
NormalizeDateRange(date_range, min_date, max_date) ==
    IF date_range.kind = "tuple"
    THEN IF Len(date_range.v) = 2
         THEN <<date_range.v[1], date_range.v[2]>>
         ELSE IF Len(date_range.v) = 1
              THEN <<date_range.v[1], date_range.v[1]>>
              ELSE <<min_date, max_date>>
    ELSE <<date_range.v[1], date_range.v[1]>>

\* the widget values of one run, with the timestamps derived from them
Criteria(f, regions, warehouses, categories, date_range) ==
    LET se == NormalizeDateRange(date_range, MinDate(f), MaxDate(f))
    IN  [regions |-> regions, warehouses |-> warehouses,
         categories |-> categories, date_range |-> date_range,
         start_ts |-> ToDatetime(se[1]), end_ts |-> ToDatetime(se[2])]

NoCriteria ==
    [regions |-> {}, warehouses |-> {}, categories |-> {},
     date_range |-> [kind |-> "tuple", v |-> <<>>], start_ts |-> 0, end_ts |-> 0]

\* the mask with "|" between the region and warehouse tests
MaskEither(row, c) ==
    /\ row["region"] \in c.regions \/ row["warehouse_id"] \in c.warehouses
    /\ row["product_category"] \in c.categories
    /\ row["order_date"] >= c.start_ts
    /\ row["order_date"] <= c.end_ts

\* lines 204-210: the boolean mask, row by row
Mask(row, c) ==
    /\ row["region"] \in c.regions
    /\ row["warehouse_id"] \in c.warehouses
    /\ row["product_category"] \in c.categories
    /\ row["order_date"] >= c.start_ts
    /\ row["order_date"] <= c.end_ts

\* df.loc[mask]: the rows whose mask is true, in order, with their index labels
Loc(f, c) ==
    LET keep == SelectSeq(Positions(f.rows), LAMBDA i : Mask(f.rows[i], c))
    IN  [f EXCEPT !.index = [k \in 1..Len(keep) |-> f.index[keep[k]]],
                  !.rows = [k \in 1..Len(keep) |-> f.rows[keep[k]]]]

\* the rows dropped from df itself where a new frame is meant
FilteredInPlace(source, fresh) == source

\* the object that "df.loc[mask].copy()" yields: a new frame, not df

FilteredRef(source, fresh) == fresh

-----------------------------------------------------------------------------
(* Column arithmetic and reductions shared by kpi_section and              *)
(* charts_section.                                                         *)

\* df[name] = values, one value per row
AddColumn(f, name, values) ==
    [f EXCEPT !.cols = @ \cup {name},
              !.rows = [i \in 1..Len(f.rows) |->
                          [k \in f.cols \cup {name} |->
                             IF k = name THEN values[i] ELSE f.rows[i][k]]]]

OrderValue(row) == row["units_sold"] * row["unit_price"]

TotalCost(row) == row["shipping_cost"] + row["fulfillment_cost"]

Profit(row) == row["order_value"] - row["total_cost"]

\* Timedelta.days: whole days, floored
DeliveryDays(row) == (row["delivery_date"] - row["ship_date"]) \div 24

IsLate(row) == row["delivery_status"] = "Late"

BoolInt(b) == IF b THEN 1 ELSE 0

\* Series.mean(): an exact fraction, NaN for no values
Mean(s) == IF Len(s) = 0 THEN NaNNum ELSE [num |-> SumSeq(s), den |-> Len(s)]

\* 100 * (1 - x.sum()) where the mean is meant
OnTimeRateOfSum(lates) ==
    IF Len(lates) = 0 THEN NaNNum
    ELSE [num |-> 100 * (1 - SumSeq(lates)), den |-> 1]

\* 100 * (1 - x.mean()) over a column of booleans
OnTimeRate(lates) ==
    LET m == Mean(lates)
    IN  IF m.den = 0 THEN NaNNum
        ELSE [num |-> 100 * (m.den - m.num), den |-> m.den]

\* "df = df" where the copy is meant
CopyAlias(source, fresh) == source

\* the object that "df = df.copy()" binds: a new frame, not the argument

CopyRef(source, fresh) == fresh

-----------------------------------------------------------------------------
(* kpi_section.                                                            *)

\* lines 25-29 raise (KeyError, or TypeError on text dates) before any sum
KpiRaises(f) ==
    \/ {"units_sold", "unit_price", "shipping_cost", "fulfillment_cost",
        "delivery_status"} \ f.cols # {}
    \/ ~IsDatetime(f, "delivery_date")
    \/ ~IsDatetime(f, "ship_date")

\* lines 25-29
KpiDerive(f) ==
    LET n == 1..Len(f.rows)
        a == AddColumn(f, "order_value", [i \in n |-> OrderValue(f.rows[i])])
        b == AddColumn(a, "total_cost", [i \in n |-> TotalCost(a.rows[i])])
        c == AddColumn(b, "profit", [i \in n |-> Profit(b.rows[i])])
        d == AddColumn(c, "delivery_days", [i \in n |-> DeliveryDays(c.rows[i])])
    IN  AddColumn(d, "is_late", [i \in n |-> IsLate(d.rows[i])])

\* lines 31-36
Kpis(f) ==
    [total_orders |-> Len(f.rows),
     total_revenue |-> SumSeq(Column(f, "order_value")),
     total_profit |-> SumSeq(Column(f, "profit")),
     on_time_rate |->
        OnTimeRate([i \in 1..Len(f.rows) |-> BoolInt(f.rows[i]["is_late"])]),
     avg_delivery_days |-> Mean(Column(f, "delivery_days")),
     avg_fulfillment_cost |-> Mean(Column(f, "fulfillment_cost"))]

NoKpis ==
    [total_orders |-> 0, total_revenue |-> 0, total_profit |-> 0,
     on_time_rate |-> NaNNum, avg_delivery_days |-> NaNNum,
     avg_fulfillment_cost |-> NaNNum]

-----------------------------------------------------------------------------
(* charts_section.                                                         *)

\* the rows of one group
Group(f, key, k) == SelectSeq(f.rows, LAMBDA r : r[key] = k)

\* groupby(key) with pandas' default dropna=True: a missing key forms no group
\* (only the text columns of the explored files can hold a missing value)
GroupKeys(f, key) ==
    IF key \in f.datetimes THEN Unique(f, key) ELSE Unique(f, key) \ {NaN}

SeqColumn(rows, c) == [i \in 1..Len(rows) |-> rows[i][c]]

\* lines 50-51
ChartsDerive(f) ==
    LET n == 1..Len(f.rows)
        a == AddColumn(f, "order_value", [i \in n |-> OrderValue(f.rows[i])])
    IN  AddColumn(a, "delivery_days", [i \in n |-> DeliveryDays(a.rows[i])])

\* lines 124-125
ChartsDeriveProfit(f) ==
    LET n == 1..Len(f.rows)
        a == AddColumn(f, "total_cost", [i \in n |-> TotalCost(f.rows[i])])
    IN  AddColumn(a, "profit", [i \in n |-> Profit(a.rows[i])])

\* lines 56-63; count("order_id") counts the rows of the group
OrdersByDate(f) ==
    [k \in GroupKeys(f, "order_date") |->
        [orders |-> Len(Group(f, "order_date", k)),
         revenue |-> SumSeq(SeqColumn(Group(f, "order_date", k), "order_value"))]]

\* lines 90-94
RevenueByRegion(f) ==
    [k \in GroupKeys(f, "region") |->
        [revenue |-> SumSeq(SeqColumn(Group(f, "region", k), "order_value"))]]

\* 100 * (1 - x.mean()) of line 108
GroupOnTimeRate(rows) ==
    LET n == Len(rows)
        late == SumSeq([i \in 1..n |-> BoolInt(IsLate(rows[i]))])
    IN  IF n = 0 THEN NaNNum ELSE [num |-> 100 * (n - late), den |-> n]

\* lines 105-110
OntimeByWh(f) ==
    [k \in GroupKeys(f, "warehouse_id") |->
        [on_time_rate |-> GroupOnTimeRate(Group(f, "warehouse_id", k))]]

\* lines 127-135
PerfByCat(f) ==
    [k \in GroupKeys(f, "product_category") |->
        LET g == Group(f, "product_category", k)
        IN  [revenue |-> SumSeq(SeqColumn(g, "order_value")),
             profit |-> SumSeq(SeqColumn(g, "profit")),
             avg_delivery_days |-> Mean(SeqColumn(g, "delivery_days"))]]

\* how many of the four grouped reductions complete before a statement of
\* charts_section raises on f; 4 when none raises
ChartsCompleted(f) ==
    IF \/ {"units_sold", "unit_price", "order_date", "order_id"} \ f.cols # {}
       \/ ~IsDatetime(f, "delivery_date") \/ ~IsDatetime(f, "ship_date")
    THEN 0
    ELSE IF "region" \notin f.cols THEN 1
    ELSE IF {"delivery_status", "warehouse_id"} \ f.cols # {} THEN 2
    ELSE IF {"shipping_cost", "fulfillment_cost", "product_category"} \ f.cols # {}
         THEN 3
    ELSE 4

Charts(f, done) ==
    [orders_by_date |-> IF done >= 1 THEN OrdersByDate(f) ELSE <<>>,
     revenue_by_region |-> IF done >= 2 THEN RevenueByRegion(f) ELSE <<>>,
     ontime_by_wh |-> IF done >= 3 THEN OntimeByWh(f) ELSE <<>>,
     perf_by_cat |-> IF done >= 4 THEN PerfByCat(ChartsDeriveProfit(f)) ELSE <<>>]

NoCharts == Charts(NoFrame, 0)

-----------------------------------------------------------------------------
(* The script run.                                                         *)

Terminal == {"info", "nodata", "done", "error"}

NoTrace ==
    [load_data |-> 0, sidebar_filters |-> 0, kpi_section |-> 0,
     charts_section |-> 0, derive |-> 0, kpi_agg |-> FALSE, charts_agg |-> 0,
     kpi_arg |-> NoRef, charts_arg |-> NoRef, kpi_df |-> NoRef,
     charts_df |-> NoRef]

NoOut ==
    [message |-> "none", filtered_rows |-> -1, kpis |-> NoKpis,
     charts |-> NoCharts]

\* what a rerun starts from: only the uploader and the cache survive, and
\* the cache holds one entry, dropped when the uploader's file changes
Rerun(file) ==
    /\ uploaded_file' = file
    /\ pc' = "run"
    /\ cache_key' = IF file = uploaded_file THEN cache_key ELSE NoFile
    /\ heap' = [r \in Refs |->
                  IF r = "src" /\ file = uploaded_file THEN heap[r] ELSE NoFrame]
    /\ df' = NoRef
    /\ filtered_df' = NoRef
    /\ criteria' = NoCriteria
    /\ trace' = NoTrace
    /\ out' = NoOut

Init ==
    /\ uploaded_file = NoFile
    /\ cache_key = NoFile
    /\ pc = "run"
    /\ heap = [r \in Refs |-> NoFrame]
    /\ df = NoRef
    /\ filtered_df = NoRef
    /\ criteria = NoCriteria
    /\ trace = NoTrace
    /\ out = NoOut

\* the user puts a file in the empty uploader, which reruns the script
\* (replacing a file is removing it and uploading the other)
Upload ==
    /\ pc = "info"
    /\ \E file \in Files : Rerun(file)

\* the user removes the file from the uploader
ClearUpload ==
    /\ pc \in Terminal
    /\ uploaded_file # NoFile
    /\ Rerun(NoFile)

\* the user changes a sidebar widget, which reruns the script
ChangeFilter ==
    /\ pc \in {"nodata", "done"}
    /\ Rerun(uploaded_file)

\* an upload test that never takes the "no file" branch
NoUploadNever(file) == FALSE

\* line 219
NoUpload(file) == file = NoFile

\* lines 219-223
MainNoFile ==
    /\ pc = "run"
    /\ NoUpload(uploaded_file)
    /\ out' = [out EXCEPT !.message = "info"]
    /\ pc' = "info"
    /\ UNCHANGED <<uploaded_file, cache_key, heap, df, filtered_df, criteria, trace>>

\* lines 225-228: load_data under st.cache_data, and the preview
LoadData ==
    /\ pc = "run"
    /\ ~NoUpload(uploaded_file)
    /\ trace' = [trace EXCEPT !.load_data = @ + 1]
    /\ IF uploaded_file # NoFile /\ cache_key = uploaded_file
       THEN /\ df' = "src"
            /\ pc' = "loaded"
            /\ UNCHANGED <<cache_key, heap, out>>
       ELSE IF uploaded_file = NoFile \/ LoadRaises(uploaded_file)
       THEN /\ out' = [out EXCEPT !.message = "exception"]
            /\ pc' = "error"
            /\ UNCHANGED <<cache_key, heap, df>>
       ELSE /\ heap' = [heap EXCEPT !["src"] = ReadCsv(uploaded_file)]
            /\ cache_key' = uploaded_file
            /\ df' = "src"
            /\ pc' = "loaded"
            /\ UNCHANGED out
    /\ UNCHANGED <<uploaded_file, filtered_df, criteria>>

\* lines 230-232: sidebar_filters with the widget values of this run, and the
\* filtered row count
SidebarFilters ==
    /\ pc = "loaded"
    /\ trace' = [trace EXCEPT !.sidebar_filters = @ + 1]
    /\ IF FiltersRaise(heap[df])
       THEN /\ out' = [out EXCEPT !.message = "exception"]
            /\ pc' = "error"
            /\ UNCHANGED <<heap, filtered_df, criteria>>
       ELSE \E regions \in SUBSET Unique(heap[df], "region"),
               warehouses \in SUBSET Unique(heap[df], "warehouse_id"),
               categories \in SUBSET Unique(heap[df], "product_category"),
               date_range \in DateInputs :
            LET c == Criteria(heap[df], regions, warehouses, categories, date_range)
                ref == FilteredRef(df, "filtered")
            IN  /\ criteria' = c
                /\ filtered_df' = ref
                /\ heap' = [heap EXCEPT ![ref] = Loc(heap[df], c)]
                /\ out' = [out EXCEPT !.filtered_rows = Len(heap'[ref].rows)]
                /\ pc' = "filtered"
    /\ UNCHANGED <<uploaded_file, cache_key, df>>

\* an empty-result test that never succeeds
IsEmptyResultNever(f) == FALSE

\* line 234
IsEmptyResult(f) == Len(f.rows) = 0

\* lines 234-235
MainEmpty ==
    /\ pc = "filtered"
    /\ IsEmptyResult(heap[filtered_df])
    /\ out' = [out EXCEPT !.message = "warning"]
    /\ pc' = "nodata"
    /\ UNCHANGED <<uploaded_file, cache_key, heap, df, filtered_df, criteria, trace>>

\* line 237: kpi_section(filtered_df)
KpiSection ==
    /\ pc = "filtered"
    /\ ~IsEmptyResult(heap[filtered_df])
    /\ LET ref == CopyRef(filtered_df, "kpi")
           copied == [heap EXCEPT ![ref] = heap[filtered_df]]
       IN  IF KpiRaises(heap[filtered_df])
           THEN /\ heap' = copied
                /\ trace' = [trace EXCEPT !.kpi_section = @ + 1,
                                          !.kpi_arg = filtered_df,
                                          !.kpi_df = ref]
                /\ out' = [out EXCEPT !.message = "exception"]
                /\ pc' = "error"
           ELSE /\ heap' = [copied EXCEPT ![ref] = KpiDerive(@)]
                /\ trace' = [trace EXCEPT !.kpi_section = @ + 1,
                                          !.kpi_arg = filtered_df,
                                          !.kpi_df = ref,
                                          !.derive = @ + 1,
                                          !.kpi_agg = TRUE]
                /\ out' = [out EXCEPT !.kpis = Kpis(heap'[ref])]
                /\ pc' = "kpi_done"
    /\ UNCHANGED <<uploaded_file, cache_key, df, filtered_df, criteria>>

\* line 238: charts_section(filtered_df)
ChartsSection ==
    /\ pc = "kpi_done"
    /\ LET ref == CopyRef(filtered_df, "charts")
           copied == [heap EXCEPT ![ref] = heap[filtered_df]]
           done == ChartsCompleted(heap[filtered_df])
           derived == ChartsDerive(copied[ref])
       IN  IF done = 0
           THEN /\ heap' = copied
                /\ trace' = [trace EXCEPT !.charts_section = @ + 1,
                                          !.charts_arg = filtered_df,
                                          !.charts_df = ref]
                /\ out' = [out EXCEPT !.message = "exception"]
                /\ pc' = "error"
           ELSE /\ heap' = [copied EXCEPT ![ref] =
                               IF done = 4 THEN ChartsDeriveProfit(derived)
                               ELSE derived]
                /\ trace' = [trace EXCEPT !.charts_section = @ + 1,
                                          !.charts_arg = filtered_df,
                                          !.charts_df = ref,
                                          !.derive = @ + 1,
                                          !.charts_agg = done]
                /\ out' = [out EXCEPT !.charts = Charts(derived, done),
                                      !.message = IF done = 4 THEN @ ELSE "exception"]
                /\ pc' = IF done = 4 THEN "done" ELSE "error"
    /\ UNCHANGED <<uploaded_file, cache_key, df, filtered_df, criteria>>

Next ==
    \/ Upload
    \/ ClearUpload
    \/ ChangeFilter
    \/ MainNoFile
    \/ LoadData
    \/ SidebarFilters
    \/ MainEmpty
    \/ KpiSection
    \/ ChartsSection

Spec == Init /\ [][Next]_vars

-----------------------------------------------------------------------------
(* Properties.                                                             *)

\* sidebar_filters has returned in this run
Filtered == filtered_df # NoRef

Source == heap["src"]

Result == heap[filtered_df]

InRegions(row) == row["region"] \in criteria.regions

InWarehouses(row) == row["warehouse_id"] \in criteria.warehouses

InCategories(row) == row["product_category"] \in criteria.categories

InInterval(row) ==
    criteria.start_ts <= row["order_date"] /\ row["order_date"] <= criteria.end_ts

AllFour(row) ==
    InRegions(row) /\ InWarehouses(row) /\ InCategories(row) /\ InInterval(row)

NotRegion(row) == InWarehouses(row) /\ InCategories(row) /\ InInterval(row)

NotWarehouse(row) == InRegions(row) /\ InCategories(row) /\ InInterval(row)

NotCategory(row) == InRegions(row) /\ InWarehouses(row) /\ InInterval(row)

NotInterval(row) == InRegions(row) /\ InWarehouses(row) /\ InCategories(row)

\* the index labels of the source rows flagged in the boolean sequence
Labels(flags) ==
    {Source.index[i] : i \in {j \in 1..Len(Source.rows) : flags[j]}}

SourceRows == 1..Len(Source.rows)

ResultLabels == {Result.index[k] : k \in 1..Len(Result.rows)}

\* C1: the filtered subset holds a source row if and only if the row meets all
\* four predicates (region, warehouse, category, start <= order_date <= end,
\* the bounds being the timestamps the selected dates denote); an empty
\* selection in a dimension gives no rows; dropping a predicate never shrinks
\* the result.
FilterConjunctive ==
    Filtered =>
        /\ ResultLabels = Labels([j \in SourceRows |-> AllFour(Source.rows[j])])
        /\ \A k \in 1..Len(Result.rows) :
              /\ Result.rows[k] = Source.rows[Result.index[k] + 1]
              /\ \A m \in 1..Len(Result.rows) :
                    k < m => Result.index[k] < Result.index[m]
        /\ (criteria.regions = {} \/ criteria.warehouses = {}
              \/ criteria.categories = {}) => Len(Result.rows) = 0
        /\ ResultLabels \subseteq Labels([j \in SourceRows |-> NotRegion(Source.rows[j])])
        /\ ResultLabels \subseteq Labels([j \in SourceRows |-> NotWarehouse(Source.rows[j])])
        /\ ResultLabels \subseteq Labels([j \in SourceRows |-> NotCategory(Source.rows[j])])
        /\ ResultLabels \subseteq Labels([j \in SourceRows |-> NotInterval(Source.rows[j])])

\* a filter that keeps one row and rejects another on its warehouse alone
FilterConjunctiveWitness ==
    /\ Filtered
    /\ Len(Result.rows) = 1
    /\ Len(Source.rows) = 2
    /\ \E i \in 1..2 : InRegions(Source.rows[i]) /\ ~InWarehouses(Source.rows[i])

IsNumber(q) == q.den > 0

\* C2: when the filtered table has no rows, neither kpi_section nor
\* charts_section is called, the run reports a filtered row count of zero and
\* ends in the "no data" state, and no mean of an empty column is computed.
EmptyGuard ==
    /\ (Filtered /\ Len(Result.rows) = 0) =>
          /\ pc \in {"filtered", "nodata"}
          /\ trace.kpi_section = 0
          /\ trace.charts_section = 0
          /\ out.filtered_rows = 0
          /\ pc = "nodata" => out.message = "warning"
    /\ trace.kpi_section > 0 =>
          /\ Len(heap[trace.kpi_arg].rows) > 0
          /\ trace.kpi_agg =>
                /\ IsNumber(out.kpis.on_time_rate)
                /\ IsNumber(out.kpis.avg_delivery_days)
                /\ IsNumber(out.kpis.avg_fulfillment_cost)
    /\ trace.charts_section > 0 => Len(heap[trace.charts_arg].rows) > 0

\* a run over a non-empty source that ended with "no data" although every
\* categorical selection was non-empty
EmptyGuardWitness ==
    /\ pc = "nodata"
    /\ Len(Source.rows) > 0
    /\ out.filtered_rows = 0
    /\ criteria.regions # {}
    /\ criteria.warehouses # {}
    /\ criteria.categories # {}

\* the widgets hold their defaults
DefaultSelection ==
    /\ criteria.regions = Unique(Source, "region")
    /\ criteria.warehouses = Unique(Source, "warehouse_id")
    /\ criteria.categories = Unique(Source, "product_category")
    /\ criteria.date_range =
          [kind |-> "tuple", v |-> <<MinDate(Source), MaxDate(Source)>>]

\* C3: with the widgets at their defaults every source row passes the filter:
\* the filtered subset is the whole source table.
DefaultsKeepAllRows ==
    (Filtered /\ DefaultSelection) =>
        /\ Result.rows = Source.rows
        /\ Result.index = Source.index

\* C4: a single date is both start and end, a two-date interval is
\* (start, end), and any other value falls back to the observed (min, max)
\* span, in which case the date predicate excludes no source row.
DateRangeNormalized ==
    Filtered =>
        LET dr == criteria.date_range
        IN  /\ (dr.kind = "tuple" /\ Len(dr.v) = 2) =>
                  /\ criteria.start_ts = ToDatetime(dr.v[1])
                  /\ criteria.end_ts = ToDatetime(dr.v[2])
            /\ (dr.kind = "date" \/ Len(dr.v) = 1) =>
                  /\ criteria.start_ts = ToDatetime(dr.v[1])
                  /\ criteria.end_ts = ToDatetime(dr.v[1])
            /\ (dr.kind = "tuple" /\ Len(dr.v) \notin {1, 2}) =>
                  /\ criteria.start_ts = ToDatetime(MinDate(Source))
                  /\ criteria.end_ts = ToDatetime(MaxDate(Source))
                  /\ \A i \in 1..Len(Source.rows) : InInterval(Source.rows[i])

\* C5: on a malformed upload (a required column absent, or an unparsable
\* date) the run aborts before any aggregation: no KPI sum or mean and no
\* grouped reduction is executed.
MalformedAbortsBeforeAggregation ==
    (uploaded_file # NoFile /\ IsMalformed(uploaded_file)) =>
        /\ ~trace.kpi_agg
        /\ trace.charts_agg = 0

\* C6: with no file uploaded the run shows only the informational message:
\* load_data, sidebar_filters, kpi_section and charts_section are not called
\* and the run does not end in the error state.
NoUploadSkipsAll ==
    uploaded_file = NoFile =>
        /\ pc \in {"run", "info"}
        /\ trace = NoTrace
        /\ pc = "info" => out = [NoOut EXCEPT !.message = "info"]

\* the run with no file has ended
NoUploadWitness == uploaded_file = NoFile /\ pc = "info"

RECURSIVE SumRevenue(_, _)
SumRevenue(agg, keys) ==
    IF keys = {} THEN 0
    ELSE LET k == CHOOSE x \in keys : TRUE
         IN  agg[k].revenue + SumRevenue(agg, keys \ {k})

\* C7: the revenues of the by-region aggregate add up to the order value
\* (units_sold x unit_price) of all rows of the filtered table, rows with a
\* missing region included.
AggregateConservation ==
    trace.charts_agg >= 2 =>
        SumRevenue(out.charts.revenue_by_region, DOMAIN out.charts.revenue_by_region)
          = SumSeq([i \in 1..Len(Result.rows) |->
                      Result.rows[i]["units_sold"] * Result.rows[i]["unit_price"]])

InPercent(q) == q.den > 0 /\ 0 <= q.num /\ q.num <= 100 * q.den

\* C8: the overall on-time rate of kpi_section and the on-time rate of every
\* warehouse group of charts_section lie in [0, 100].
OnTimeRateBounds ==
    /\ trace.kpi_agg => InPercent(out.kpis.on_time_rate)
    /\ trace.charts_agg >= 3 =>
          \A k \in DOMAIN out.charts.ontime_by_wh :
              InPercent(out.charts.ontime_by_wh[k].on_time_rate)

\* a finished run over two late orders of two warehouses
OnTimeRateWitness ==
    /\ pc = "done"
    /\ out.kpis.on_time_rate = [num |-> 0, den |-> 2]
    /\ Cardinality(DOMAIN out.charts.ontime_by_wh) = 2

\* C9: the loaded source table is never modified: through every run it has
\* the rows, columns and values that load_data parsed from the file.
SourceImmutable ==
    /\ cache_key # NoFile => Source = ReadCsv(cache_key)
    /\ df # NoRef => df = "src" /\ cache_key = uploaded_file

\* a finished run that dropped a row and derived columns on its copy
SourceImmutableWitness ==
    /\ pc = "done"
    /\ Len(Result.rows) < Len(Source.rows)
    /\ DerivedCols \subseteq heap[trace.kpi_df].cols

====
